---- MODULE Spec2Model ----
(***************************************************************************)
(* Model of zoda-rs.                                                       *)
(*   src/src/tree.rs       DataSquare::extend, the quadrant-extension /    *)
(*                         commit / challenge / recombine pipeline over    *)
(*                         field elements (specifications Spec, SpecAny)   *)
(*   src/src/datasquare.rs DataSquare::new and DataSquare::extend_square,  *)
(*                         the byte-share square layout (SpecSquare)       *)
(*                                                                         *)
(* Felt (BinaryField128b) is scaled down to the 2-bit level GF(4) of the   *)
(* same binary tower.  Sha256 and the Merkle tree are modelled as          *)
(* collision-free: a leaf is a tagged copy of the element hashed and a     *)
(* root is a tagged copy of the leaf sequence.  Vectors are 1-based here,  *)
(* 0-based in the source.                                                  *)
(***************************************************************************)
EXTENDS Integers, Sequences, FiniteSets, TLC

VARIABLES
    encoder,      \* tree.rs DataSquare.encoder: [kind, dim]
    q1_cols,      \* tree.rs DataSquare.q1_cols
    width,        \* tree.rs DataSquare.width
    pc,           \* position of DataSquare::extend
    q3_cols,      \* locals of DataSquare::extend, None until assigned
    x_tree,
    root,
    dr,
    q1_dr_cols,
    q3_dr_cols,
    q2_rows,
    q4_rows,
    z_tree,
    eds,          \* the returned ExtendedDataSquare, None until returned
    trace,        \* history: the stages completed so far, in order
    q1_before,    \* history: q1_cols when extend was called
    sq,           \* datasquare.rs DataSquare, None before DataSquare::new
    sq_pc,        \* "new" | "ready" | "panic"
    sq_data,      \* argument of DataSquare::new: the flat share list
    sq_share_size,\* argument of DataSquare::new
    sq_calls,     \* history: <<k, filler>> of every successful extend_square
    sq_last       \* outcome of the last extend_square: "none" | "ok" | "err"

treeVars == <<encoder, q1_cols, width, pc, q3_cols, x_tree, root, dr,
              q1_dr_cols, q3_dr_cols, q2_rows, q4_rows, z_tree, eds, trace,
              q1_before>>
sqVars == <<sq, sq_pc, sq_data, sq_share_size, sq_calls, sq_last>>
vars == <<treeVars, sqVars>>

(***************************************************************************)
(* Bounds                                                                  *)
(***************************************************************************)
MaxWidth == 2
MaxVal == 1
MaxLen == 4
MaxGrow == 2
MaxCalls == 2
MaxSquareWidth == 4
MaxByte == 1

(***************************************************************************)
(* Option and Result                                                       *)
(***************************************************************************)
None == <<>>
Some(v) == <<v>>
IsSome(o) == o # None
Get(o) == o[1]

Ok(v) == [ok |-> TRUE, val |-> v]
Err == [ok |-> FALSE, val |-> <<>>]

(***************************************************************************)
(* Felt: GF(4), elements 0, 1, x = 2, x + 1 = 3                            *)
(***************************************************************************)
Felt == 0 .. 3

FAddTable ==
    << <<0, 1, 2, 3>>,
       <<1, 0, 3, 2>>,
       <<2, 3, 0, 1>>,
       <<3, 2, 1, 0>> >>

FMulTable ==
    << <<0, 0, 0, 0>>,
       <<0, 1, 2, 3>>,
       <<0, 2, 3, 1>>,
       <<0, 3, 1, 2>> >>

FAdd(a, b) == FAddTable[a + 1][b + 1]

FMul(a, b) == FMulTable[a + 1][b + 1]

RECURSIVE FSum(_)
FSum(s) == IF s = <<>> THEN 0 ELSE FAdd(Head(s), FSum(Tail(s)))

(***************************************************************************)
(* The encoder (external collaborator, called at tree.rs:114 and :154).    *)
(* It has a fixed message length dim and rejects any other length.         *)
(*   "dup"   encode(v) = v ++ v                 (systematic, length 2n)    *)
(*   "rs"    encode(v) = v ++ parity(v)         (systematic, length 2n)    *)
(*   "short" encode(v) = v                      (length n, not 2n)         *)
(***************************************************************************)
Coef(i, j) == ((i + j) % 3) + 1

Parity(v) ==
    [j \in 1 .. Len(v) |-> FSum([i \in 1 .. Len(v) |-> FMul(Coef(i, j), v[i])])]

encode(e, v) ==
    IF Len(v) # e.dim THEN Err
    ELSE IF e.kind = "dup" THEN Ok(v \o v)
    ELSE IF e.kind = "rs" THEN Ok(v \o Parity(v))
    ELSE Ok(v)

(***************************************************************************)
(* Hashing                                                                 *)
(***************************************************************************)
Sha256Hash(elem) == <<"sha256", elem>>

RECURSIVE Flatten(_)
Flatten(m) == IF m = <<>> THEN <<>> ELSE Head(m) \o Flatten(Tail(m))

MerkleFromLeaves(leaves) == leaves

\* Mutant of MerkleRoot: an empty tree yields a default root.
MerkleRootOrDefault(tree) == Some(<<"root", tree>>)

MerkleRoot(tree) == IF tree = <<>> THEN None ELSE Some(<<"root", tree>>)

\* sha2::Sha256 over root || be(i), truncated to a field element: a fixed
\* pseudo-random function of the root's leaves and the index.
RECURSIVE Mix(_, _)
Mix(leaves, h) ==
    IF leaves = <<>> THEN h
    ELSE Mix(Tail(leaves), (5 * h + Head(leaves)[2] + 1) % 7)

Digest(tree_commitment, i) == (Mix(tree_commitment[2], 3) + 3 * i) % 4

(***************************************************************************)
(* tree.rs helpers                                                         *)
(***************************************************************************)
\* transpose indexes col[i] for every i below matrix.len(): it panics when a
\* column is shorter than the number of columns.
TransposePanics(matrix) ==
    \E c \in 1 .. Len(matrix) : Len(matrix[c]) < Len(matrix)

transpose(matrix) ==
    [i \in 1 .. Len(matrix) |-> [c \in 1 .. Len(matrix) |-> matrix[c][i]]]

\* multiply_dr reads dr[i] once per element of column i.
MultiplyDrPanics(matrix, d) ==
    \E i \in 1 .. Len(matrix) : Len(matrix[i]) > 0 /\ i > Len(d)

multiply_dr(matrix, d) ==
    [i \in 1 .. Len(matrix) |->
        [r \in 1 .. Len(matrix[i]) |-> FMul(matrix[i][r], d[i])]]

\* Every encode of one pass, then the first failure decides.
EncodeAll(e, vecs) ==
    LET res == [i \in 1 .. Len(vecs) |-> encode(e, vecs[i])]
    IN  IF \E i \in 1 .. Len(vecs) : ~res[i].ok THEN Err
        ELSE Ok([i \in 1 .. Len(vecs) |-> res[i].val])

create_q3(e, q1) == EncodeAll(e, q1)

create_tree(matrices) ==
    LET repr == Flatten(matrices)
        elems == Flatten(repr)
    IN  MerkleFromLeaves([k \in 1 .. Len(elems) |-> Sha256Hash(elems[k])])

\* Mutant of create_dr: the challenge is derived from a fixed root.
create_dr_fixed(tree_commitment, w) ==
    [i \in 1 .. w |-> Digest(<<"root", <<>>>>, i - 1)]

create_dr(tree_commitment, w) ==
    [i \in 1 .. w |-> Digest(tree_commitment, i - 1)]

extend_quadrant(e, column_data) == EncodeAll(e, transpose(column_data))

ZipExtend(a, b) ==
    [i \in 1 .. Len(a) |-> IF i <= Len(b) THEN a[i] \o b[i] ELSE a[i]]

FromColsPanics(q1, q2, q3, q4) ==
    TransposePanics(ZipExtend(q1, q3) \o ZipExtend(q2, q4))

from_cols(q1, q2, q3, q4, d, xt, zt) ==
    LET left_cols == ZipExtend(q1, q3)
        right_cols == ZipExtend(q2, q4)
        cols == left_cols \o right_cols
    IN  [cols |-> cols, rows |-> transpose(cols), dr |-> d,
         x_tree |-> xt, z_tree |-> zt]

(***************************************************************************)
(* DataSquare::extend, one action per stage                                *)
(***************************************************************************)
Fail(how) ==
    /\ pc' = how
    /\ UNCHANGED <<q3_cols, x_tree, root, dr, q1_dr_cols, q3_dr_cols,
                   q2_rows, q4_rows, z_tree, eds, trace>>

\* tree.rs:72
CreateQ3 ==
    /\ pc = "Initialized"
    /\ LET r == create_q3(encoder, q1_cols)
       IN  IF ~r.ok THEN Fail("err")
           ELSE /\ q3_cols' = Some(r.val)
                /\ pc' = "Q3Created"
                /\ trace' = Append(trace, "Q3Created")
                /\ UNCHANGED <<x_tree, root, dr, q1_dr_cols, q3_dr_cols,
                               q2_rows, q4_rows, z_tree, eds>>
    /\ UNCHANGED <<encoder, q1_cols, width, q1_before, sqVars>>

\* tree.rs:73-77
FirstCommit ==
    /\ pc = "Q3Created"
    /\ IF TransposePanics(q1_cols) \/ TransposePanics(Get(q3_cols))
       THEN Fail("panic")
       ELSE LET t == create_tree(<<transpose(q1_cols), transpose(Get(q3_cols))>>)
            IN  IF MerkleRoot(t) = None THEN Fail("err")
                ELSE /\ x_tree' = Some(t)
                     /\ root' = MerkleRoot(t)
                     /\ pc' = "FirstCommitted"
                     /\ trace' = Append(trace, "FirstCommitted")
                     /\ UNCHANGED <<q3_cols, dr, q1_dr_cols, q3_dr_cols,
                                    q2_rows, q4_rows, z_tree, eds>>
    /\ UNCHANGED <<encoder, q1_cols, width, q1_before, sqVars>>

\* tree.rs:79
Challenge ==
    /\ pc = "FirstCommitted"
    /\ dr' = Some(create_dr(Get(root), width))
    /\ pc' = "Challenged"
    /\ trace' = Append(trace, "Challenged")
    /\ UNCHANGED <<q3_cols, x_tree, root, q1_dr_cols, q3_dr_cols, q2_rows,
                   q4_rows, z_tree, eds>>
    /\ UNCHANGED <<encoder, q1_cols, width, q1_before, sqVars>>

\* tree.rs:81-84
Scale ==
    /\ pc = "Challenged"
    /\ IF MultiplyDrPanics(q1_cols, Get(dr)) \/ MultiplyDrPanics(Get(q3_cols), Get(dr))
       THEN Fail("panic")
       ELSE /\ q1_dr_cols' = Some(multiply_dr(q1_cols, Get(dr)))
            /\ q3_dr_cols' = Some(multiply_dr(Get(q3_cols), Get(dr)))
            /\ pc' = "Scaled"
            /\ trace' = Append(trace, "Scaled")
            /\ UNCHANGED <<q3_cols, x_tree, root, dr, q2_rows, q4_rows,
                           z_tree, eds>>
    /\ UNCHANGED <<encoder, q1_cols, width, q1_before, sqVars>>

\* tree.rs:86-87
SecondExtend ==
    /\ pc = "Scaled"
    /\ IF TransposePanics(Get(q1_dr_cols)) THEN Fail("panic")
       ELSE LET r2 == extend_quadrant(encoder, Get(q1_dr_cols))
            IN  IF ~r2.ok THEN Fail("err")
                ELSE IF TransposePanics(Get(q3_dr_cols)) THEN Fail("panic")
                ELSE LET r4 == extend_quadrant(encoder, Get(q3_dr_cols))
                     IN  IF ~r4.ok THEN Fail("err")
                         ELSE /\ q2_rows' = Some(r2.val)
                              /\ q4_rows' = Some(r4.val)
                              /\ pc' = "SecondExtended"
                              /\ trace' = Append(trace, "SecondExtended")
                              /\ UNCHANGED <<q3_cols, x_tree, root, dr,
                                             q1_dr_cols, q3_dr_cols, z_tree, eds>>
    /\ UNCHANGED <<encoder, q1_cols, width, q1_before, sqVars>>

\* tree.rs:89
SecondCommit ==
    /\ pc = "SecondExtended"
    /\ IF TransposePanics(Get(q2_rows)) \/ TransposePanics(Get(q4_rows))
       THEN Fail("panic")
       ELSE /\ z_tree' = Some(create_tree(<<Get(q1_dr_cols), transpose(Get(q2_rows)),
                                           Get(q3_dr_cols), transpose(Get(q4_rows))>>))
            /\ pc' = "SecondCommitted"
            /\ trace' = Append(trace, "SecondCommitted")
            /\ UNCHANGED <<q3_cols, x_tree, root, dr, q1_dr_cols, q3_dr_cols,
                           q2_rows, q4_rows, eds>>
    /\ UNCHANGED <<encoder, q1_cols, width, q1_before, sqVars>>

\* Mutant of Assemble: the scaled copy of Q1 is assembled in place of Q1.
AssembleScaled ==
    /\ pc = "SecondCommitted"
    /\ eds' = Some(from_cols(Get(q1_dr_cols), transpose(Get(q2_rows)), Get(q3_cols),
                             transpose(Get(q4_rows)), Get(dr), Get(x_tree), Get(z_tree)))
    /\ pc' = "Assembled"
    /\ trace' = Append(trace, "Assembled")
    /\ UNCHANGED <<q3_cols, x_tree, root, dr, q1_dr_cols, q3_dr_cols, q2_rows,
                   q4_rows, z_tree>>
    /\ UNCHANGED <<encoder, q1_cols, width, q1_before, sqVars>>

\* tree.rs:91-101
Assemble ==
    /\ pc = "SecondCommitted"
    /\ LET q2 == transpose(Get(q2_rows))
           q4 == transpose(Get(q4_rows))
       IN  IF FromColsPanics(q1_cols, q2, Get(q3_cols), q4) THEN Fail("panic")
           ELSE /\ eds' = Some(from_cols(q1_cols, q2, Get(q3_cols), q4, Get(dr),
                                         Get(x_tree), Get(z_tree)))
                /\ pc' = "Assembled"
                /\ trace' = Append(trace, "Assembled")
                /\ UNCHANGED <<q3_cols, x_tree, root, dr, q1_dr_cols,
                               q3_dr_cols, q2_rows, q4_rows, z_tree>>
    /\ UNCHANGED <<encoder, q1_cols, width, q1_before, sqVars>>

TreeNext ==
    \/ CreateQ3
    \/ FirstCommit
    \/ Challenge
    \/ Scale
    \/ SecondExtend
    \/ SecondCommit
    \/ Assemble

(***************************************************************************)
(* Initial states                                                          *)
(***************************************************************************)
InputVals == 0 .. MaxVal

Vectors(n) == [1 .. n -> InputVals]

SquareQ1(w) == [1 .. w -> Vectors(w)]

RaggedQ1 ==
    UNION {[1 .. n -> UNION {Vectors(l) : l \in 0 .. MaxWidth}] : n \in 0 .. MaxWidth}

SquareIdle ==
    /\ sq = None
    /\ sq_pc = "idle"
    /\ sq_data = <<>>
    /\ sq_share_size = 0
    /\ sq_calls = <<>>
    /\ sq_last = "none"

TreeStart ==
    /\ pc = "Initialized"
    /\ q3_cols = None
    /\ x_tree = None
    /\ root = None
    /\ dr = None
    /\ q1_dr_cols = None
    /\ q3_dr_cols = None
    /\ q2_rows = None
    /\ q4_rows = None
    /\ z_tree = None
    /\ eds = None
    /\ trace = <<>>
    /\ q1_before = q1_cols

\* A square Q1 whose width field is its number of columns, and an encoder
\* of rate 1/2 with any message length.
Init ==
    /\ width \in 0 .. MaxWidth
    /\ q1_cols \in SquareQ1(width)
    /\ encoder \in [kind : {"dup", "rs"}, dim : 0 .. MaxWidth]
    /\ TreeStart
    /\ SquareIdle

Next == TreeNext

Spec == Init /\ [][Next]_vars

\* Any DataSquare value: ragged columns, any width field, any encoder.
InitAny ==
    /\ width \in 0 .. MaxWidth
    /\ q1_cols \in RaggedQ1
    /\ encoder \in [kind : {"dup", "rs", "short"}, dim : 0 .. MaxWidth]
    /\ TreeStart
    /\ SquareIdle

SpecAny == InitAny /\ [][Next]_vars

(***************************************************************************)
(* datasquare.rs: the byte-share square                                    *)
(***************************************************************************)
Square(data, axis) == [data |-> data, roots |-> <<>>, axis |-> axis]

\* (data.len() as f64).sqrt().ceil()
CeilSqrt(n) == CHOOSE w \in 0 .. n : w * w >= n /\ \A v \in 0 .. w - 1 : v * v < n

NewPanics(data, share_size) ==
    \/ CeilSqrt(Len(data)) * CeilSqrt(Len(data)) # Len(data)
    \/ \E i \in 1 .. Len(data) : Len(data[i]) # share_size

\* datasquare.rs:55-59
SquareRows(data, w) ==
    [row_idx \in 1 .. w |-> SubSeq(data, (row_idx - 1) * w + 1, row_idx * w)]

\* datasquare.rs:61-66
SquareCols(data, w) ==
    [col_idx \in 1 .. w |-> [row_idx \in 1 .. w |-> data[(row_idx - 1) * w + col_idx]]]

DataSquareNew(data, share_size) ==
    LET w == CeilSqrt(Len(data))
    IN  [row_data |-> Square(SquareRows(data, w), "Row"),
         col_data |-> Square(SquareCols(data, w), "Col"),
         width |-> w,
         share_size |-> share_size]

Repeat(x, n) == [i \in 1 .. n |-> x]

\* Mutant of ExtendRows: the filler is put in front of each original row.
ExtendRowsPrepend(rows, w, extended_width, filler_share) ==
    [i \in 1 .. w |-> Repeat(filler_share, extended_width) \o rows[i]]
        \o Repeat(Repeat(filler_share, w + extended_width), extended_width)

\* datasquare.rs:81-97
ExtendRows(rows, w, extended_width, filler_share) ==
    LET new_width == w + extended_width
        filler_extended_row == Repeat(filler_share, extended_width)
        filler_row == Repeat(filler_share, new_width)
    IN  [i \in 1 .. w |-> rows[i] \o filler_extended_row]
            \o Repeat(filler_row, new_width - w)

\* datasquare.rs:101-106
ColsOfRows(rows, new_width) ==
    [col_idx \in 1 .. new_width |-> [row_idx \in 1 .. new_width |-> rows[row_idx][col_idx]]]

extend_square(s, extended_width, filler_share) ==
    LET new_width == s.width + extended_width
        new_square_row == ExtendRows(s.row_data.data, s.width, extended_width, filler_share)
    IN  [row_data |-> Square(new_square_row, "Row"),
         col_data |-> Square(ColsOfRows(new_square_row, new_width), "Col"),
         width |-> new_width,
         share_size |-> s.share_size]

\* datasquare.rs:42-74
New ==
    /\ sq_pc = "new"
    /\ IF NewPanics(sq_data, sq_share_size)
       THEN sq_pc' = "panic" /\ sq' = sq
       ELSE sq_pc' = "ready" /\ sq' = Some(DataSquareNew(sq_data, sq_share_size))
    /\ UNCHANGED <<sq_data, sq_share_size, sq_calls, sq_last, treeVars>>

Shares == UNION {[1 .. l -> 0 .. MaxByte] : l \in 0 .. 1}

\* datasquare.rs:76-112
ExtendSquare ==
    /\ sq_pc = "ready"
    /\ Len(sq_calls) < MaxCalls
    /\ \E extended_width \in 0 .. MaxGrow, filler_share \in Shares :
        /\ Get(sq).width + extended_width <= MaxSquareWidth
        /\ IF Len(filler_share) # Get(sq).share_size
           THEN /\ sq_last' = "err"
                /\ UNCHANGED <<sq, sq_calls>>
           ELSE /\ sq' = Some(extend_square(Get(sq), extended_width, filler_share))
                /\ sq_calls' = Append(sq_calls, <<extended_width, filler_share>>)
                /\ sq_last' = "ok"
    /\ UNCHANGED <<sq_pc, sq_data, sq_share_size, treeVars>>

SquareNext ==
    \/ New
    \/ ExtendSquare

TreeIdle ==
    /\ encoder = [kind |-> "dup", dim |-> 0]
    /\ q1_cols = <<>>
    /\ width = 0
    /\ pc = "idle"
    /\ q3_cols = None
    /\ x_tree = None
    /\ root = None
    /\ dr = None
    /\ q1_dr_cols = None
    /\ q3_dr_cols = None
    /\ q2_rows = None
    /\ q4_rows = None
    /\ z_tree = None
    /\ eds = None
    /\ trace = <<>>
    /\ q1_before = <<>>

InitSquare ==
    /\ sq = None
    /\ sq_pc = "new"
    /\ sq_data \in UNION {[1 .. n -> Shares] : n \in 0 .. MaxLen}
    /\ sq_share_size \in 0 .. 1
    /\ sq_calls = <<>>
    /\ sq_last = "none"
    /\ TreeIdle

SpecSquare == InitSquare /\ [][SquareNext]_vars

(***************************************************************************)
(* Vocabulary of the properties                                            *)
(***************************************************************************)
Stages == <<"Q3Created", "FirstCommitted", "Challenged", "Scaled",
            "SecondExtended", "SecondCommitted", "Assembled">>

Done(n) == Len(trace) >= n

\* The transpose of a list of equally long columns, whatever their length.
MatTranspose(m) ==
    IF m = <<>> THEN <<>>
    ELSE [r \in 1 .. Len(m[1]) |-> [c \in 1 .. Len(m) |-> m[c][r]]]

LeavesOf(matrices) ==
    LET elems == Flatten(Flatten(matrices))
    IN  [k \in 1 .. Len(elems) |-> <<"sha256", elems[k]>>]

ScaledBy(m, d) == [c \in 1 .. Len(m) |-> [r \in 1 .. Len(m[c]) |-> FMul(m[c][r], d[c])]]

\* The quadrants as they lie in the assembled square's column-major form.
EdsQ3 == [c \in 1 .. width |-> SubSeq(Get(eds).cols[c], width + 1, Len(Get(eds).cols[c]))]
EdsQ2 == [c \in 1 .. width |-> SubSeq(Get(eds).cols[width + c], 1, width)]
EdsQ4 == [c \in 1 .. width |->
            SubSeq(Get(eds).cols[width + c], width + 1, Len(Get(eds).cols[width + c]))]

RowOf(m, r) == [c \in 1 .. Len(m) |-> m[c][r]]

(***************************************************************************)
(* C1: the assembled square has 2*width columns of length 2*width and      *)
(* 2*width rows of length 2*width.                                         *)
(***************************************************************************)
C1_AssembledSizes ==
    pc = "Assembled" =>
        /\ Len(Get(eds).cols) = 2 * width
        /\ \A c \in 1 .. Len(Get(eds).cols) : Len(Get(eds).cols[c]) = 2 * width
        /\ Len(Get(eds).rows) = 2 * width
        /\ \A r \in 1 .. Len(Get(eds).rows) : Len(Get(eds).rows[r]) = 2 * width

(***************************************************************************)
(* C2: the stages of extend happen once each, in the documented order;    *)
(* every stage's output exists exactly when the stage has run; dr is       *)
(* derived from the first root, which commits to Q1 and Q3; a failed run   *)
(* has run no later stage.                                                 *)
(***************************************************************************)
C2_StageOrder ==
    /\ Len(trace) <= Len(Stages)
    /\ \A i \in 1 .. Len(trace) : trace[i] = Stages[i]
    /\ pc \notin {"err", "panic"} =>
            pc = (IF trace = <<>> THEN "Initialized" ELSE trace[Len(trace)])
    /\ IsSome(q3_cols) <=> Done(1)
    /\ IsSome(x_tree) <=> Done(2)
    /\ IsSome(root) <=> Done(2)
    /\ IsSome(dr) <=> Done(3)
    /\ IsSome(q1_dr_cols) <=> Done(4)
    /\ IsSome(q3_dr_cols) <=> Done(4)
    /\ IsSome(q2_rows) <=> Done(5)
    /\ IsSome(q4_rows) <=> Done(5)
    /\ IsSome(z_tree) <=> Done(6)
    /\ IsSome(eds) <=> Done(7)
    /\ IsSome(root) => Get(root) = <<"root", Get(x_tree)>> /\ Get(x_tree) # <<>>
    /\ IsSome(dr) =>
        /\ Len(Get(dr)) = width
        /\ \A i \in 1 .. width : Get(dr)[i] = Digest(Get(root), i - 1)
    /\ IsSome(q1_dr_cols) => Get(q1_dr_cols) = ScaledBy(q1_cols, Get(dr))
    /\ IsSome(q3_dr_cols) => Get(q3_dr_cols) = ScaledBy(Get(q3_cols), Get(dr))

C2_Witness ==
    /\ pc = "Assembled"
    /\ width = MaxWidth
    /\ \E i \in 1 .. width : Get(dr)[i] # Digest(<<"root", <<>>>>, i - 1)

(***************************************************************************)
(* C3: challenge binding.  Changing any single element of Q1, or of the    *)
(* Q3 that create_q3 produced, changes the leaves of the first tree.       *)
(***************************************************************************)
FirstLeaves(q1, q3) == create_tree(<<transpose(q1), transpose(q3)>>)

C3_ChallengeBinding ==
    IsSome(x_tree) =>
        /\ \A c \in 1 .. Len(q1_cols) : \A r \in 1 .. Len(q1_cols[c]) :
             \A v \in Felt \ {q1_cols[c][r]} :
                FirstLeaves([q1_cols EXCEPT ![c][r] = v], Get(q3_cols)) # Get(x_tree)
        /\ \A c \in 1 .. Len(Get(q3_cols)) : \A r \in 1 .. Len(Get(q3_cols)[c]) :
             \A v \in Felt \ {Get(q3_cols)[c][r]} :
                FirstLeaves(q1_cols, [Get(q3_cols) EXCEPT ![c][r] = v]) # Get(x_tree)

(***************************************************************************)
(* C4: leaf order.  First tree: transpose(Q1) then transpose(Q3).  Second  *)
(* tree: Q1_scaled, transpose(Q2), Q3_scaled, transpose(Q4), with Q2, Q3,  *)
(* Q4 the column-form quadrants of the assembled square.                   *)
(***************************************************************************)
C4_LeafOrder ==
    pc = "Assembled" =>
        /\ Get(eds).x_tree = LeavesOf(<<MatTranspose(q1_cols), MatTranspose(EdsQ3)>>)
        /\ Get(eds).z_tree =
              LeavesOf(<<ScaledBy(q1_cols, Get(eds).dr), MatTranspose(EdsQ2),
                         ScaledBy(EdsQ3, Get(eds).dr), MatTranspose(EdsQ4)>>)

(***************************************************************************)
(* C5: create_q3 returns width columns, column i the extension half of     *)
(* encode(Q1 column i), of length width; with encode(v) = v ++ v, Q3 = Q1. *)
(***************************************************************************)
C5_Q3IsExtensionHalf ==
    IsSome(q3_cols) =>
        /\ Len(Get(q3_cols)) = width
        /\ \A i \in 1 .. width :
            /\ Len(Get(q3_cols)[i]) = width
            /\ Get(q3_cols)[i] = SubSeq(encode(encoder, q1_cols[i]).val, width + 1, 2 * width)
        /\ encoder.kind = "dup" => Get(q3_cols) = q1_cols

(***************************************************************************)
(* C6: after a successful extend the stored Q1 is what it was before the   *)
(* call and the top-left width x width block of the assembled square, in   *)
(* both forms, is the unscaled Q1.                                         *)
(***************************************************************************)
C6_Q1Untouched ==
    pc = "Assembled" =>
        /\ q1_cols = q1_before
        /\ \A c \in 1 .. width : \A r \in 1 .. width :
            /\ Get(eds).cols[c][r] = q1_before[c][r]
            /\ Get(eds).rows[r][c] = q1_before[c][r]

C6_Witness ==
    /\ pc = "Assembled"
    /\ width = MaxWidth
    /\ \E c \in 1 .. width : \E r \in 1 .. width :
          Get(q1_dr_cols)[c][r] # q1_before[c][r]

(***************************************************************************)
(* C7: extend on an empty Q1 ends in an error: no panic, no challenge      *)
(* vector, no root, no Extended Data Square.                               *)
(***************************************************************************)
C7_EmptyIsError ==
    (q1_before = <<>> /\ width = 0) =>
        /\ pc \in {"Initialized", "Q3Created", "err"}
        /\ root = None
        /\ dr = None
        /\ eds = None

C7_Witness == q1_before = <<>> /\ width = 0 /\ pc = "err" /\ IsSome(q3_cols)

(***************************************************************************)
(* C8: a DataSquare with a column whose length is not the number of        *)
(* columns, or a width field that is not the number of columns, or an      *)
(* encoder whose codeword is not twice its input, makes extend return an   *)
(* error: it neither panics on an index nor returns a square.              *)
(***************************************************************************)
Malformed ==
    \/ \E c \in 1 .. Len(q1_before) : Len(q1_before[c]) # Len(q1_before)
    \/ width # Len(q1_before)
    \/ encoder.kind = "short"

C8_MismatchIsError == Malformed => pc \notin {"panic", "Assembled"}

(***************************************************************************)
(* C10: Q2[c][r] = encode(row r of Q1_scaled)[width + c] and               *)
(* Q4[c][r] = encode(row r of Q3_scaled)[width + c], for c, r < width.     *)
(***************************************************************************)
C10_SecondExtension ==
    pc = "Assembled" =>
        \A c \in 1 .. width : \A r \in 1 .. width :
            /\ EdsQ2[c][r] =
                 encode(encoder, RowOf(ScaledBy(q1_cols, Get(eds).dr), r)).val[width + c]
            /\ EdsQ4[c][r] =
                 encode(encoder, RowOf(ScaledBy(EdsQ3, Get(eds).dr), r)).val[width + c]

(***************************************************************************)
(* C9: after DataSquare::new and any successful extend_square calls, the   *)
(* original width x width block of both views is the original data, every  *)
(* other cell is the filler of the call that added it, the width is the    *)
(* original width plus the sum of the k, and the column-major view is the  *)
(* transpose of the row-major view.                                        *)
(***************************************************************************)
RECURSIVE SumK(_, _)
SumK(calls, n) == IF n = 0 THEN 0 ELSE calls[n][1] + SumK(calls, n - 1)

OrigWidth == CHOOSE w \in 0 .. Len(sq_data) : w * w = Len(sq_data)

Max2(a, b) == IF a >= b THEN a ELSE b

\* The first call after which the square is wide enough to hold index n.
AddedBy(n) ==
    CHOOSE j \in 1 .. Len(sq_calls) :
        /\ OrigWidth + SumK(sq_calls, j) >= n
        /\ OrigWidth + SumK(sq_calls, j - 1) < n

ExpectedShare(r, c) ==
    IF r <= OrigWidth /\ c <= OrigWidth
    THEN sq_data[(r - 1) * OrigWidth + c]
    ELSE sq_calls[AddedBy(Max2(r, c))][2]

C9_ExtendPreservesData ==
    sq_pc = "ready" =>
        LET s == Get(sq)
        IN  /\ s.width = OrigWidth + SumK(sq_calls, Len(sq_calls))
            /\ Len(s.row_data.data) = s.width
            /\ Len(s.col_data.data) = s.width
            /\ \A r \in 1 .. s.width :
                 /\ Len(s.row_data.data[r]) = s.width
                 /\ Len(s.col_data.data[r]) = s.width
            /\ \A r \in 1 .. s.width : \A c \in 1 .. s.width :
                 /\ s.row_data.data[r][c] = ExpectedShare(r, c)
                 /\ s.col_data.data[c][r] = ExpectedShare(r, c)

C9_Witness ==
    /\ sq_pc = "ready"
    /\ Len(sq_calls) = 2
    /\ OrigWidth = 2
    /\ sq_calls[1][1] >= 1
    /\ sq_calls[2][1] >= 1
    /\ sq_calls[1][2] # sq_calls[2][2]
    /\ sq_data[2] # sq_data[3]

====
